---- MODULE Spec2Model ----
(***************************************************************************)
(* Model of src/main.py: a Telegram bot that records the media posted in a *)
(* storage channel in a JSON file (video_db.json) and serves a paginated   *)
(* inline menu of the recorded media.                                      *)
(*                                                                         *)
(* Python strings that the code parses or builds (record ids, captions,    *)
(* titles, callback data, button labels) are sequences of one-character    *)
(* strings; fixed message texts and Telegram file ids are opaque strings.  *)
(***************************************************************************)
EXTENDS Integers, Sequences, FiniteSets, TLC

VARIABLES db, out, last, pc, loc, hist

vars == <<db, out, last, pc, loc, hist>>

(***************************************************************************)
(* Bounds of the model.                                                    *)
(***************************************************************************)
\* message ids of channel posts are 1..MaxMsgId
MaxMsgId == 2
\* number of webhook requests that may run add_or_update_entry concurrently
NumWorkers == 2
\* upserts started in one run of the concurrent specification
MaxUpserts == 3
\* largest store the menu specification starts from
MaxRecords == 13
\* largest page index a "page:<n>" callback asks for
MaxPage == 3
\* longest list an arbitrary store starts with
MaxInitLen == 2

(***************************************************************************)
(* Configuration (main.py 19-21).  CHANNEL_ID is only ever compared for    *)
(* equality, so the chat ids are kept as strings.                          *)
(***************************************************************************)
CHANNEL_ID == "-1003370713141"
PAGE_SIZE == 6

(***************************************************************************)
(* Python string helpers.                                                  *)
(***************************************************************************)
Digit(d) ==
    CASE d = 0 -> "0" [] d = 1 -> "1" [] d = 2 -> "2" [] d = 3 -> "3"
      [] d = 4 -> "4" [] d = 5 -> "5" [] d = 6 -> "6" [] d = 7 -> "7"
      [] d = 8 -> "8" [] d = 9 -> "9"

DigitChars == {"0", "1", "2", "3", "4", "5", "6", "7", "8", "9"}

DigitVal(c) == CHOOSE d \in 0..9 : Digit(d) = c

RECURSIVE StrNat(_)
StrNat(n) == IF n < 10 THEN <<Digit(n)>> ELSE StrNat(n \div 10) \o <<Digit(n % 10)>>

\* str(n) of a Python int
str(n) == IF n < 0 THEN <<"-">> \o StrNat(-n) ELSE StrNat(n)

Whitespace == {" ", "\t", "\n", "\r"}

RECURSIVE lstrip(_)
lstrip(s) == IF s # <<>> /\ Head(s) \in Whitespace THEN lstrip(Tail(s)) ELSE s

RECURSIVE rstrip(_)
rstrip(s) ==
    IF s # <<>> /\ s[Len(s)] \in Whitespace THEN rstrip(SubSeq(s, 1, Len(s) - 1)) ELSE s

\* s.strip()
strip(s) == rstrip(lstrip(s))

\* s.startswith(p)
startswith(s, p) == Len(s) >= Len(p) /\ SubSeq(s, 1, Len(p)) = p

\* s.split(":", 1)[1] for an s that contains ":" (every s the code applies it
\* to starts with "page:" or "play:"): what follows the first colon
AfterColon(s) ==
    LET i == CHOOSE k \in 1..Len(s) : s[k] = ":" /\ \A j \in 1..(k - 1) : s[j] # ":"
    IN  SubSeq(s, i + 1, Len(s))

RECURSIVE DigitsToNat(_)
DigitsToNat(s) ==
    IF s = <<>> THEN 0 ELSE DigitsToNat(SubSeq(s, 1, Len(s) - 1)) * 10 + DigitVal(s[Len(s)])

\* int(s): surrounding whitespace is dropped, one sign is allowed, single
\* underscores may separate digits; anything else raises ValueError
int(s) ==
    LET t    == strip(s)
        sgn  == t # <<>> /\ Head(t) \in {"+", "-"}
        body == IF sgn THEN Tail(t) ELSE t
        ok   == /\ body # <<>>
                /\ \A i \in 1..Len(body) : body[i] \in DigitChars \cup {"_"}
                /\ body[1] # "_" /\ body[Len(body)] # "_"
                /\ \A i \in 1..(Len(body) - 1) : ~(body[i] = "_" /\ body[i + 1] = "_")
        digs == SelectSeq(body, LAMBDA c : c \in DigitChars)
        mag  == DigitsToNat(digs)
    IN  IF ok THEN [raised |-> FALSE, val |-> IF sgn /\ Head(t) = "-" THEN -mag ELSE mag]
              ELSE [raised |-> TRUE, val |-> 0]

\* seq[a:b] of a Python list
PySlice(s, a, b) ==
    LET n     == Len(s)
        Norm(i) == IF i < 0 THEN (IF i + n < 0 THEN 0 ELSE i + n)
                            ELSE (IF i > n THEN n ELSE i)
        lo    == Norm(a)
        hi    == Norm(b)
    IN  IF lo < hi THEN SubSeq(s, lo + 1, hi) ELSE <<>>

(***************************************************************************)
(* The backing file DB_PATH.  kind says what the file system holds there:  *)
(*   "absent"      no such path                                            *)
(*   "unreadable"  the path exists but open() raises OSError (a directory, *)
(*                 or no permission), for reading and for writing          *)
(*   "invalid"     a file whose content is not JSON                        *)
(*   "nonlist"     valid JSON whose top-level value is a single object     *)
(*   "list"        a JSON list of record objects                           *)
(* data is the parsed content: the list, or for "nonlist" the one object   *)
(* (held as a 1-element sequence so that data has one shape).              *)
(***************************************************************************)
Record(id, title, file_id, msg_id) ==
    [id |-> id, title |-> title, file_id |-> file_id, msg_id |-> msg_id]

File(kind, data) == [kind |-> kind, data |-> data]

Ret(v) == [raised |-> FALSE, val |-> v]
Raise == [raised |-> TRUE, val |-> <<>>]

\* os.path.exists(DB_PATH)
exists(d) == d.kind # "absent"

\* open(DB_PATH, "r") followed by json.load(fh)
json_load(d) ==
    IF d.kind \in {"absent", "unreadable", "invalid"} THEN Raise ELSE Ret(d.data)

\* isinstance(data, list)
is_list(d) == d.kind = "list"

\* load_db without the exists() test and the try/except
load_db_unguarded(d) ==
    LET r == json_load(d) IN IF r.raised THEN Raise ELSE Ret(r.val)

load_db(d) ==
    IF ~exists(d) THEN Ret(<<>>)
    ELSE LET r == json_load(d)
         IN  IF r.raised THEN Ret(<<>>)
             ELSE IF is_list(d) THEN Ret(r.val) ELSE Ret(<<>>)

\* the file after save_db(entries): open(DB_PATH, "w") raises on an
\* unopenable path and the except clause swallows it; otherwise the whole
\* file is replaced by the dump of entries.  The write is one step: a dump
\* that fails or is overtaken half-way is outside the model.
save_db(d, entries) ==
    IF d.kind = "unreadable" THEN d ELSE File("list", entries)

(***************************************************************************)
(* add_or_update_entry (main.py 47-56).                                    *)
(***************************************************************************)
\* lines 49-55 on the loaded list: the first record whose msg_id matches is
\* updated in place, otherwise a new record is appended
\* variants with a slip: the scan keyed on the title, a scan that never
\* matches, an update that re-appends the record, an id taken from the
\* list length
upsert_match_title(entries, title, file_id, msg_id) ==
    LET hits == {i \in 1..Len(entries) : entries[i].title = title}
    IN  IF hits # {}
        THEN LET i == CHOOSE k \in hits : \A j \in hits : k <= j
             IN  [entries EXCEPT ![i].title = title, ![i].file_id = file_id]
        ELSE Append(entries, Record(str(msg_id), title, file_id, msg_id))

upsert_always_append(entries, title, file_id, msg_id) ==
    Append(entries, Record(str(msg_id), title, file_id, msg_id))

upsert_reappend(entries, title, file_id, msg_id) ==
    LET hits == {i \in 1..Len(entries) : entries[i].msg_id = msg_id}
    IN  IF hits # {}
        THEN LET i == CHOOSE k \in hits : \A j \in hits : k <= j
             IN  Append(SubSeq(entries, 1, i - 1) \o SubSeq(entries, i + 1, Len(entries)),
                        [entries[i] EXCEPT !.title = title, !.file_id = file_id])
        ELSE Append(entries, Record(str(msg_id), title, file_id, msg_id))

upsert_id_from_len(entries, title, file_id, msg_id) ==
    LET hits == {i \in 1..Len(entries) : entries[i].msg_id = msg_id}
    IN  IF hits # {}
        THEN LET i == CHOOSE k \in hits : \A j \in hits : k <= j
             IN  [entries EXCEPT ![i].title = title, ![i].file_id = file_id]
        ELSE Append(entries, Record(str(Len(entries) + 1), title, file_id, msg_id))

upsert_entries(entries, title, file_id, msg_id) ==
    LET hits == {i \in 1..Len(entries) : entries[i].msg_id = msg_id}
    IN  IF hits # {}
        THEN LET i == CHOOSE k \in hits : \A j \in hits : k <= j
             IN  [entries EXCEPT ![i].title = title, ![i].file_id = file_id]
        ELSE Append(entries, Record(str(msg_id), title, file_id, msg_id))

\* the file after add_or_update_entry(title, file_id, msg_id)
add_or_update_entry(d, title, file_id, msg_id) ==
    save_db(d, upsert_entries(load_db(d).val, title, file_id, msg_id))

(***************************************************************************)
(* Bot API calls made by a handler, in order.                              *)
(***************************************************************************)
Button(label, data) == [label |-> label, data |-> data]

Call(api, chat, text, keyboard, document, title) ==
    [api |-> api, chat |-> chat, text |-> text, keyboard |-> keyboard,
     document |-> document, title |-> title]

Message(api, chat, text) == Call(api, chat, text, <<>>, "", <<>>)

\* callback data and button labels (the arrows of the Prev and Next labels
\* are written < and >)
C_page   == <<"p", "a", "g", "e", ":">>
C_play   == <<"p", "l", "a", "y", ":">>
C_noop   == <<"n", "o", "o", "p">>
C_refresh == <<"r", "e", "f", "r", "e", "s", "h", "_", "d", "b">>
L_prev   == <<"<", " ", "P", "r", "e", "v">>
L_next   == <<"N", "e", "x", "t", " ", ">">>
L_page   == <<"P", "a", "g", "e", " ">>
L_refresh == <<"R", "e", "f", "r", "e", "s", "h", " ", "D", "B">>

\* lines 70-72: one row per record of the slice
record_rows(slice_entries) ==
    [k \in 1..Len(slice_entries) |->
        <<Button(slice_entries[k].title, C_play \o slice_entries[k].id)>>]

\* nav_row with the Next test off by one (end_idx <= total)
nav_row_next_off(page, end_idx, total) ==
    (IF page > 0 THEN <<Button(L_prev, C_page \o str(page - 1))>> ELSE <<>>)
    \o <<Button(L_page \o str(page + 1) \o <<"/">> \o str((total - 1) \div PAGE_SIZE + 1),
                C_noop)>>
    \o (IF end_idx <= total THEN <<Button(L_next, C_page \o str(page + 1))>> ELSE <<>>)

\* lines 74-80
nav_row(page, end_idx, total) ==
    (IF page > 0 THEN <<Button(L_prev, C_page \o str(page - 1))>> ELSE <<>>)
    \o <<Button(L_page \o str(page + 1) \o <<"/">> \o str((total - 1) \div PAGE_SIZE + 1),
                C_noop)>>
    \o (IF end_idx < total THEN <<Button(L_next, C_page \o str(page + 1))>> ELSE <<>>)

\* the slice with pages that overlap by one record
slice_overlapping(entries, page) ==
    PySlice(entries, page * (PAGE_SIZE - 1), page * (PAGE_SIZE - 1) + PAGE_SIZE)

\* entries[start_idx:end_idx], lines 66-68
slice_entries_of(entries, page) ==
    PySlice(entries, page * PAGE_SIZE, page * PAGE_SIZE + PAGE_SIZE)

\* send_menu_page(chat_id, page), main.py 59-84
send_menu_page(d, chat_id, page) ==
    LET entries == load_db(d).val
        total   == Len(entries)
        end_idx == page * PAGE_SIZE + PAGE_SIZE
        keyboard == record_rows(slice_entries_of(entries, page))
                    \o <<nav_row(page, end_idx, total)>>
                    \o <<<<Button(L_refresh, C_refresh)>>>>
    IN  IF total = 0
        THEN <<Message("send_message", chat_id, "No videos available yet.")>>
        ELSE <<Call("send_message", chat_id, "Select a video:", keyboard, "", <<>>)>>

\* start(update, context), main.py 87-94
start(d, chat_id) ==
    IF load_db(d).val = <<>>
    THEN <<Message("reply_text", chat_id, "Hello! No videos yet in the channel.\nForward/upload videos to your storage channel.")>>
    ELSE send_menu_page(d, chat_id, 0)

\* the lookup falling back to the first record instead of None
find_entry_or_first(entries, vid_id) ==
    LET hits == {i \in 1..Len(entries) : entries[i].id = vid_id}
    IN  IF entries = <<>> THEN <<>>
        ELSE IF hits = {} THEN <<entries[1]>>
        ELSE <<entries[CHOOSE k \in hits : \A j \in hits : k <= j]>>

\* next((e for e in entries if e["id"] == vid_id), None), line 117
find_entry(entries, vid_id) ==
    LET hits == {i \in 1..Len(entries) : entries[i].id = vid_id}
    IN  IF hits = {} THEN <<>>
        ELSE <<entries[CHOOSE k \in hits : \A j \in hits : k <= j]>>

\* callback_handler(update, context), main.py 96-129; send_ok says whether
\* bot.send_document succeeds (it raises on an expired or protected file)
callback_handler(d, chat_id, data, send_ok) ==
    LET answer == <<Message("answer", chat_id, "")>>
        delete == <<Message("delete", chat_id, "")>>
    IN  IF data = <<>> \/ data = C_noop THEN answer
        ELSE IF data = C_refresh
        THEN answer \o delete \o send_menu_page(d, chat_id, 0)
        ELSE IF startswith(data, C_page)
        THEN LET r    == int(AfterColon(data))
                 page == IF r.raised THEN 0 ELSE r.val
             IN  answer \o delete \o send_menu_page(d, chat_id, page)
        ELSE IF startswith(data, C_play)
        THEN LET vid_id == AfterColon(data)
                 entry  == find_entry(load_db(d).val, vid_id)
             IN  IF entry = <<>>
                 THEN answer \o <<Message("reply_text", chat_id, "Video not found. Try Refresh.")>>
                 ELSE IF send_ok
                 THEN answer \o <<Call("send_document", chat_id, "", <<>>,
                                       entry[1].file_id, entry[1].title)>>
                 ELSE answer \o <<Message("reply_text", chat_id, "Failed to send video. It might be protected or file_id expired. Re-upload to channel if needed.")>>
        ELSE answer

(***************************************************************************)
(* channel_post_listener (main.py 131-147).  A post carries its chat, its  *)
(* message id, a caption ("" when there is none: the code reads            *)
(* msg.caption or ""), and its attachments: document and video are a file  *)
(* id or NoFile, photo is the list of the sizes' file ids.                 *)
(***************************************************************************)
NoFile == "None"

Post(present, chat, message_id, caption, document, video, photo) ==
    [present |-> present, chat |-> chat, message_id |-> message_id, caption |-> caption,
     document |-> document, video |-> video, photo |-> photo]

T_document == <<"D", "o", "c", "u", "m", "e", "n", "t", " ">>
T_video    == <<"V", "i", "d", "e", "o", " ">>
T_photo    == <<"P", "h", "o", "t", "o", " ">>

\* caption or f"<Kind> {msg_id}"
title_of(caption, kind, msg_id) == IF caption # <<>> THEN caption ELSE kind \o str(msg_id)

\* the call of add_or_update_entry the listener makes, if any:
\* [upsert, title, file_id, msg_id]
NoUpsert == [upsert |-> FALSE, title |-> <<>>, file_id |-> NoFile, msg_id |-> 0]
Upsert(title, file_id, msg_id) ==
    [upsert |-> TRUE, title |-> title, file_id |-> file_id, msg_id |-> msg_id]

\* the listener storing every post of the channel, media or not
listener_call_any_post(msg) ==
    IF ~msg.present \/ msg.chat # CHANNEL_ID THEN NoUpsert
    ELSE LET caption == strip(msg.caption)
             msg_id  == msg.message_id
         IN  IF msg.document # NoFile
             THEN Upsert(title_of(caption, T_document, msg_id), msg.document, msg_id)
             ELSE IF msg.video # NoFile
             THEN Upsert(title_of(caption, T_video, msg_id), msg.video, msg_id)
             ELSE IF msg.photo # <<>>
             THEN Upsert(title_of(caption, T_photo, msg_id), msg.photo[Len(msg.photo)], msg_id)
             ELSE Upsert(title_of(caption, T_document, msg_id), NoFile, msg_id)

listener_call(msg) ==
    IF ~msg.present \/ msg.chat # CHANNEL_ID THEN NoUpsert
    ELSE LET caption == strip(msg.caption)
             msg_id  == msg.message_id
         IN  IF msg.document # NoFile
             THEN Upsert(title_of(caption, T_document, msg_id), msg.document, msg_id)
             ELSE IF msg.video # NoFile
             THEN Upsert(title_of(caption, T_video, msg_id), msg.video, msg_id)
             ELSE IF msg.photo # <<>>
             THEN Upsert(title_of(caption, T_photo, msg_id), msg.photo[Len(msg.photo)], msg_id)
             ELSE NoUpsert

\* the file after channel_post_listener(update, context)
channel_post_listener(d, msg) ==
    LET c == listener_call(msg)
    IN  IF c.upsert THEN add_or_update_entry(d, c.title, c.file_id, c.msg_id) ELSE d

(***************************************************************************)
(* Inputs.                                                                 *)
(***************************************************************************)
MsgIds == 1..MaxMsgId
Chats == {"u1"}
Captions == {<<>>, <<" ", "a">>}
Photos == <<"fp1", "fp2">>

Posts ==
    {Post(TRUE, CHANNEL_ID, m, c, "fd", NoFile, <<>>) : m \in MsgIds, c \in Captions}
    \cup {Post(TRUE, CHANNEL_ID, m, <<>>, NoFile, "fv", <<>>) : m \in MsgIds}
    \cup {Post(TRUE, CHANNEL_ID, m, <<>>, NoFile, NoFile, Photos) : m \in MsgIds}
    \cup {Post(TRUE, CHANNEL_ID, m, <<>>, "fd", "fv", Photos) : m \in MsgIds}
    \cup {Post(TRUE, CHANNEL_ID, m, c, NoFile, NoFile, <<>>) : m \in MsgIds, c \in Captions}
    \cup {Post(TRUE, "other", 1, <<>>, "fd", NoFile, <<>>),
          Post(FALSE, CHANNEL_ID, 1, <<>>, NoFile, NoFile, <<>>)}

NoPost == Post(FALSE, "", 0, <<>>, NoFile, NoFile, <<>>)

CallbackData ==
    {<<>>, C_noop, C_refresh, <<"x">>}
    \cup {C_page \o str(i) : i \in 0..MaxPage}
    \cup {C_page \o <<"-", "1">>, C_page \o <<"x">>, C_page \o <<" ", "1", "\n">>}
    \cup {C_play \o str(m) : m \in 1..(MaxMsgId + 1)}
    \cup {C_play \o <<"x">>}

(***************************************************************************)
(* State.                                                                  *)
(*   db    the backing file                                                *)
(*   out   the Bot API calls of the last handler run                       *)
(*   last  the last handler run: its input, the file before it, the        *)
(*         result of the load_db() it made, the upsert it made, and        *)
(*         whether it repeats the upsert of the run before it              *)
(*   pc, loc, hist   the concurrent upserts (see below)                    *)
(***************************************************************************)
Last(op, post, data, before, call, rep) ==
    [op |-> op, post |-> post, data |-> data, before |-> before,
     loaded |-> load_db(before), call |-> call, rep |-> rep]

Workers == 1..NumWorkers

NoLoc == [entries |-> <<>>, title |-> <<>>, file_id |-> NoFile, msg_id |-> 0]

NoHist == [started |-> 0, saver |-> 0, stale |-> FALSE, missed |-> {}]

InitRest ==
    /\ out = <<>>
    /\ last = Last("init", NoPost, <<>>, db, NoUpsert, FALSE)
    /\ pc = [p \in Workers |-> "idle"]
    /\ loc = [p \in Workers |-> NoLoc]
    /\ hist = NoHist

\* the store is empty or absent
Init ==
    /\ db \in {File("absent", <<>>), File("list", <<>>)}
    /\ InitRest

\* a channel post is delivered to the webhook
ChannelPost ==
    \E msg \in Posts :
        LET c == listener_call(msg)
        IN  /\ db' = channel_post_listener(db, msg)
            /\ out' = <<>>
            /\ last' = Last("channel_post", msg, <<>>, db, c,
                            c.upsert /\ last.call = c)
            /\ UNCHANGED <<pc, loc, hist>>

\* a /start command is delivered
Start ==
    \E chat \in Chats :
        /\ out' = start(db, chat)
        /\ last' = Last("start", NoPost, <<>>, db, NoUpsert, FALSE)
        /\ UNCHANGED <<db, pc, loc, hist>>

\* a callback query is delivered
Callback ==
    \E chat \in Chats, data \in CallbackData :
      \E send_ok \in IF startswith(data, C_play) THEN BOOLEAN ELSE {TRUE} :
        /\ out' = callback_handler(db, chat, data, send_ok)
        /\ last' = Last("callback", NoPost, data, db, NoUpsert, FALSE)
        /\ UNCHANGED <<db, pc, loc, hist>>

Next == ChannelPost \/ Start \/ Callback

Spec == Init /\ [][Next]_vars

(***************************************************************************)
(* Any store: the file is in any of its kinds, and a list may hold any     *)
(* records, also several for one msg_id and ids that are not str(msg_id).  *)
(***************************************************************************)
AnyRecords ==
    {Record(str(1), <<"a">>, "fd", 1), Record(<<"x">>, <<"b">>, "fx", 1)}

AnyLists ==
    UNION {[1..n -> AnyRecords] : n \in 0..MaxInitLen}

AnyFiles ==
    {File("absent", <<>>), File("unreadable", <<>>), File("invalid", <<>>)}
    \cup {File("nonlist", <<r>>) : r \in AnyRecords}
    \cup {File("list", l) : l \in AnyLists}

InitAny ==
    /\ db \in AnyFiles
    /\ InitRest

SpecAny == InitAny /\ [][Next]_vars

(***************************************************************************)
(* The menu over stores of up to MaxRecords records, in ascending or       *)
(* descending order of msg_id.                                             *)
(***************************************************************************)
MenuStore(n, rev) ==
    [k \in 1..n |->
        LET m == IF rev THEN n + 1 - k ELSE k
        IN  Record(str(m), T_video \o str(m), "fv", m)]

InitMenu ==
    /\ db \in {File("list", MenuStore(n, rev)) : n \in 0..MaxRecords, rev \in BOOLEAN}
    /\ InitRest

NextMenu == Start \/ Callback

SpecMenu == InitMenu /\ [][NextMenu]_vars

(***************************************************************************)
(* Concurrent upserts.  The webhook (main.py 158-162) runs in a threaded   *)
(* server, so several requests may be inside add_or_update_entry at once.  *)
(* A worker loads the file (line 48), then scans, changes its own copy and *)
(* saves it (lines 49-56); the file is not locked in between.  Each save   *)
(* replaces the whole file.                                                *)
(*   pc[p]   "idle" or "loaded"                                            *)
(*   loc[p]  the entries p loaded and the arguments of its call            *)
(*   hist    the upserts started, and the last save: who saved, whether    *)
(*           the file had changed since the saver loaded it, and the       *)
(*           msg_ids that were in the file then but not in the copy the    *)
(*           saver had loaded                                              *)
(***************************************************************************)
MsgIdsOf(entries) == {entries[i].msg_id : i \in 1..Len(entries)}

UpsertCalls == {listener_call(msg) : msg \in {q \in Posts : listener_call(q).upsert}}

\* the scan and the save done on a fresh load: what a lock around
\* add_or_update_entry would give
save_reloaded(d, l) ==
    add_or_update_entry(d, l.title, l.file_id, l.msg_id)

\* the file after lines 49-56 run on the copy loaded earlier
save_loaded(d, l) ==
    save_db(d, upsert_entries(l.entries, l.title, l.file_id, l.msg_id))

RaceLoad(p) ==
    /\ pc[p] = "idle"
    /\ hist.started < MaxUpserts
    /\ \E c \in UpsertCalls :
          loc' = [loc EXCEPT ![p] = [entries |-> load_db(db).val, title |-> c.title,
                                     file_id |-> c.file_id, msg_id |-> c.msg_id]]
    /\ pc' = [pc EXCEPT ![p] = "loaded"]
    /\ hist' = [hist EXCEPT !.started = @ + 1]
    /\ UNCHANGED <<db, out, last>>

RaceSave(p) ==
    /\ pc[p] = "loaded"
    /\ db' = save_loaded(db, loc[p])
    /\ pc' = [pc EXCEPT ![p] = "idle"]
    /\ loc' = [loc EXCEPT ![p] = NoLoc]
    /\ hist' = [hist EXCEPT !.saver = p,
                            !.stale = load_db(db).val # loc[p].entries,
                            !.missed = MsgIdsOf(load_db(db).val)
                                       \ (MsgIdsOf(loc[p].entries) \cup {loc[p].msg_id})]
    /\ UNCHANGED <<out, last>>

NextRace == \E p \in Workers : RaceLoad(p) \/ RaceSave(p)

SpecRace == Init /\ [][NextRace]_vars

(***************************************************************************)
(* Properties.                                                             *)
(***************************************************************************)
\* the records a file holds: those of a JSON list, none otherwise
RecordsOf(d) == IF d.kind = "list" THEN d.data ELSE <<>>

NoDuplicates(entries) ==
    \A i, j \in 1..Len(entries) : i # j => entries[i].msg_id # entries[j].msg_id

FirstWith(entries, msg_id) ==
    CHOOSE i \in 1..Len(entries) :
        /\ entries[i].msg_id = msg_id
        /\ \A j \in 1..(i - 1) : entries[j].msg_id # msg_id

LastWasUpsert == last.op = "channel_post" /\ last.call.upsert

\* C1: starting from an empty or absent store, after any sequence of
\* sequential upserts the persisted list holds at most one record for each
\* msg_id.
C1_OneRecordPerMsgId == NoDuplicates(RecordsOf(db))

\* an upsert for a msg_id already stored has run and every msg_id is stored
C1_Witness ==
    /\ LastWasUpsert
    /\ last.call.msg_id \in MsgIdsOf(RecordsOf(last.before))
    /\ MsgIdsOf(RecordsOf(db)) = MsgIds

C5_LoadNeverRaises ==
    /\ ~last.loaded.raised
    /\ last.before.kind = "list" => last.loaded.val = last.before.data
    /\ last.before.kind \in {"absent", "unreadable", "invalid", "nonlist"}
          => last.loaded.val = <<>>

\* /start was answered from a file whose JSON is not a list
C5_Witness ==
    /\ last.op = "start"
    /\ last.before.kind = "nonlist"
    /\ Len(out) = 1 /\ out[1].api = "reply_text"

NoMedia(msg) == msg.document = NoFile /\ msg.video = NoFile /\ msg.photo = <<>>

\* C6: a channel post with no document, video or photo makes no upsert and
\* leaves the backing file as it was, whatever the store was.
C6_NoMediaNoMutation ==
    (last.op = "channel_post" /\ NoMedia(last.post)) =>
        (~last.call.upsert /\ db = last.before)

\* a captioned post without media arrived from the channel on a store with records
C6_Witness ==
    /\ last.op = "channel_post"
    /\ last.post.present /\ last.post.chat = CHANNEL_ID
    /\ NoMedia(last.post) /\ last.post.caption # <<>>
    /\ RecordsOf(db) # <<>>

PlayOfMissing ==
    /\ last.op = "callback"
    /\ Len(last.data) >= 5 /\ SubSeq(last.data, 1, 5) = C_play
    /\ \A i \in 1..Len(RecordsOf(last.before)) :
          RecordsOf(last.before)[i].id # SubSeq(last.data, 6, Len(last.data))

\* C7: a callback "play:<id>" whose id matches no record of the store gets
\* the "not found" reply, sends no document and leaves the store unchanged.
C7_PlayMissingNotFound ==
    PlayOfMissing =>
        /\ \E k \in 1..Len(out) :
              out[k].api = "reply_text" /\ out[k].text = "Video not found. Try Refresh."
        /\ \A k \in 1..Len(out) : out[k].api # "send_document"
        /\ db = last.before

\* the id was asked of a store that holds other records
C7_Witness == PlayOfMissing /\ RecordsOf(last.before) # <<>>

\* ceil(n / p) for n >= 1
CeilDiv(n, p) == CHOOSE k \in 1..n : k * p >= n /\ (k - 1) * p < n

Min(a, b) == IF a < b THEN a ELSE b

\* the last handler run asked send_menu_page for page i
MenuShown(i) ==
    \/ last.op = "start" /\ i = 0
    \/ last.op = "callback" /\ last.data = C_refresh /\ i = 0
    \/ last.op = "callback" /\ last.data = C_page \o str(i)

\* the page i of a store of N >= 1 records is a page of the menu
ValidPage(i) ==
    /\ MenuShown(i)
    /\ Len(RecordsOf(db)) >= 1
    /\ i < CeilDiv(Len(RecordsOf(db)), PAGE_SIZE)

Keyboard == out[Len(out)].keyboard

\* the keyboard's rows are the record rows, the navigation row, the refresh row
RecordRows == SubSeq(Keyboard, 1, Len(Keyboard) - 2)
NavRow == Keyboard[Len(Keyboard) - 1]

InRow(row, b) == \E k \in 1..Len(row) : row[k] = b
HasLabel(row, label) == \E k \in 1..Len(row) : row[k].label = label

\* C3: for a store of N >= 1 records and a page index 0 <= i < ceil(N/6),
\* the menu's indicator shows ceil(N/6) pages and its record buttons are the
\* records at positions [6i, min(6(i+1), N)) of the stored list, in order.
C3_PageSlice ==
    \A i \in 0..MaxPage :
        ValidPage(i) =>
            LET recs == RecordsOf(db)
                N    == Len(recs)
                lo   == i * PAGE_SIZE
                hi   == Min((i + 1) * PAGE_SIZE, N)
            IN  /\ out[Len(out)].api = "send_message"
                /\ Len(Keyboard) = (hi - lo) + 2
                /\ \A k \in 1..(hi - lo) :
                      RecordRows[k] = <<Button(recs[lo + k].title, C_play \o recs[lo + k].id)>>
                /\ InRow(NavRow, Button(L_page \o str(i + 1) \o <<"/">>
                                          \o str(CeilDiv(N, PAGE_SIZE)), C_noop))

\* 13 records: the third page holds the one last record
C3_Witness ==
    /\ ValidPage(2)
    /\ Len(RecordsOf(db)) = 2 * PAGE_SIZE + 1
    /\ Len(RecordRows) = 1
    /\ RecordRows[1][1].data = C_play \o RecordsOf(db)[2 * PAGE_SIZE + 1].id

\* C4: on such a page, Prev is absent on page 0 and otherwise present and
\* targets page i-1; Next is absent on the last page and otherwise present
\* and targets page i+1.
C4_PrevNext ==
    \A i \in 0..MaxPage :
        ValidPage(i) =>
            LET pages == CeilDiv(Len(RecordsOf(db)), PAGE_SIZE)
            IN  /\ i = 0 => ~HasLabel(NavRow, L_prev)
                /\ i > 0 => InRow(NavRow, Button(L_prev, C_page \o str(i - 1)))
                /\ i = pages - 1 => ~HasLabel(NavRow, L_next)
                /\ i < pages - 1 => InRow(NavRow, Button(L_next, C_page \o str(i + 1)))

\* a last page that is exactly full: Prev and no Next
C4_Witness ==
    /\ ValidPage(1)
    /\ Len(RecordsOf(db)) = 2 * PAGE_SIZE
    /\ HasLabel(NavRow, L_prev) /\ ~HasLabel(NavRow, L_next)

\* C8: the upsert is a load, then a save of the loaded copy, with no lock:
\* a save drops from the file every record that another upsert added after
\* the saver had loaded, so a lost update is reachable.
C8_SaveDropsMissed == hist.missed \cap MsgIdsOf(RecordsOf(db)) = {}

\* two upserts for distinct msg_ids both loaded the empty store, both have
\* saved, and the store holds only one of the two records
C8_Witness ==
    /\ hist.started = 2
    /\ \A p \in Workers : pc[p] = "idle"
    /\ hist.missed # {}
    /\ Len(RecordsOf(db)) = 1

\* C10: however the loads and saves of concurrent upserts interleave, the
\* persisted list holds at most one record for each msg_id and every
\* record's id is str(msg_id).
C10_RaceKeepsKeys ==
    /\ NoDuplicates(RecordsOf(db))
    /\ \A i \in 1..Len(RecordsOf(db)) : RecordsOf(db)[i].id = str(RecordsOf(db)[i].msg_id)

\* a save of a stale copy has just overwritten another upsert's save, and
\* the store holds a record for every msg_id
C10_Witness ==
    /\ hist.stale
    /\ MsgIdsOf(RecordsOf(db)) = MsgIds

====
